---- MODULE Spec2Model ----
(***************************************************************************)
(* Model of prepare_bop_scene.py: setup_scene_files_and_targets.           *)
(*                                                                         *)
(* The function runs once, sequentially: it checks the scene directory,    *)
(* prepares the three standard scene files (copying them from the sensor   *)
(* specific files when a sensor suffix is given), loads scene_gt.json,     *)
(* counts the annotations per image and object, and writes the targets.    *)
(***************************************************************************)
EXTENDS Integers, Sequences, FiniteSets, TLC

\* Bounds of the ground truths InitAgg enumerates: the items of the mapping,
\* and the annotations of all its lists together.
MaxEntries == 2
MaxAnns == 2

(***************************************************************************)
(* File contents.  A file holds a JSON document or bytes that are no JSON. *)
(***************************************************************************)
Absent == [type |-> "absent", items |-> <<>>]
Garbage == [type |-> "garbage", items |-> <<>>]
NonMapping == [type |-> "array", items |-> <<>>]
Mapping(items) == [type |-> "dict", items |-> items]

Exists(f) == f.type # "absent"

\* obj_id values of an annotation: two integers and a JSON array (a Python
\* list, which is not hashable).
ObjInt(n) == [kind |-> "int", v |-> n]
ObjList == [kind |-> "list", v |-> 0]
NoObj == [kind |-> "none", v |-> 0]
ObjIds == {ObjInt(5), ObjInt(7), ObjList}
Hashable(o) == o.kind # "list"

\* Annotations: a JSON value that is no object, an object without "obj_id",
\* and objects with an "obj_id".
AnnNotDict == [isDict |-> FALSE, hasObjId |-> FALSE, obj_id |-> NoObj]
AnnNoObjId == [isDict |-> TRUE, hasObjId |-> FALSE, obj_id |-> NoObj]
AnnObj(o) == [isDict |-> TRUE, hasObjId |-> TRUE, obj_id |-> o]
Annotations == {AnnNotDict, AnnNoObjId} \cup {AnnObj(o) : o \in ObjIds}

\* Image keys of the mapping, as strings of characters.
Keys == {<<"0">>, <<"1">>, <<"0", "1">>, <<"a">>}

ListEntry(k, anns) == [key |-> k, isList |-> TRUE, anns |-> anns]
NonListEntry(k) == [key |-> k, isList |-> FALSE, anns |-> <<>>]

(***************************************************************************)
(* int(im_id_str)                                                          *)
(***************************************************************************)
DigitValue == [c \in {"0", "1"} |-> IF c = "0" THEN 0 ELSE 1]

IntRaisesValueError(s) ==
    \/ Len(s) = 0
    \/ \E i \in 1..Len(s) : s[i] \notin DOMAIN DigitValue

RECURSIVE IntOfPrefix(_, _)
IntOfPrefix(s, n) ==
    IF n = 0 THEN 0 ELSE IntOfPrefix(s, n - 1) * 10 + DigitValue[s[n]]

IntOf(s) == IntOfPrefix(s, Len(s))

(***************************************************************************)
(* collections.Counter, in insertion order of its keys.                    *)
(***************************************************************************)
CounterHas(c, k) == \E i \in 1..Len(c) : c[i].obj_id = k

\* Mutants: the count is set, not incremented; a new key goes to the front.
CounterIncrementSets(c, k) ==
    IF CounterHas(c, k)
    THEN [i \in 1..Len(c) |->
             IF c[i].obj_id = k THEN [c[i] EXCEPT !.count = 1] ELSE c[i]]
    ELSE Append(c, [obj_id |-> k, count |-> 1])

CounterIncrementInFront(c, k) ==
    IF CounterHas(c, k)
    THEN [i \in 1..Len(c) |->
             IF c[i].obj_id = k THEN [c[i] EXCEPT !.count = @ + 1] ELSE c[i]]
    ELSE <<[obj_id |-> k, count |-> 1]>> \o c

CounterIncrement(c, k) ==
    IF CounterHas(c, k)
    THEN [i \in 1..Len(c) |->
             IF c[i].obj_id = k THEN [c[i] EXCEPT !.count = @ + 1] ELSE c[i]]
    ELSE Append(c, [obj_id |-> k, count |-> 1])

IsValidAnnotation(ann) == ann.isDict /\ ann.hasObjId

\* The first annotation whose obj_id cannot be hashed (the Counter raises
\* TypeError there), or 0.
FirstUnhashable(anns) ==
    LET bad == {i \in 1..Len(anns) :
                   IsValidAnnotation(anns[i]) /\ ~Hashable(anns[i].obj_id)}
    IN IF bad = {} THEN 0 ELSE CHOOSE i \in bad : \A j \in bad : i <= j

RECURSIVE CountObjects(_, _)
CountObjects(anns, n) ==
    IF n = 0 THEN <<>>
    ELSE IF IsValidAnnotation(anns[n])
         THEN CounterIncrement(CountObjects(anns, n - 1), anns[n].obj_id)
         ELSE CountObjects(anns, n - 1)

scene_id_int == 4

TargetsOfCounter(im_id, c) ==
    [i \in 1..Len(c) |->
        [scene_id |-> scene_id_int, im_id |-> im_id,
         obj_id |-> c[i].obj_id, inst_count |-> c[i].count]]

(***************************************************************************)
(* Diagnostics printed to standard output.                                 *)
(***************************************************************************)
Msg(text, about) == [text |-> text, about |-> about]

RECURSIVE InvalidWarnings(_, _, _)
InvalidWarnings(key, anns, n) ==
    IF n = 0 THEN <<>>
    ELSE IF IsValidAnnotation(anns[n])
         THEN InvalidWarnings(key, anns, n - 1)
         ELSE Append(InvalidWarnings(key, anns, n - 1),
                     Msg("warn_invalid_annotation", "image"))

(***************************************************************************)
(* File names.                                                             *)
(***************************************************************************)
KeyOrder == <<"camera", "gt", "gt_info">>
standard_files_to_prepare ==
    [camera |-> "scene_camera.json", gt |-> "scene_gt.json",
     gt_info |-> "scene_gt_info.json"]

src_name_with_suffix(key, sfx) == "scene_" \o key \o "_" \o sfx \o ".json"
actual_src_name(key, sfx) ==
    IF sfx = "" THEN standard_files_to_prepare[key]
    ELSE src_name_with_suffix(key, sfx)

Suffixes == {"", "cam1", "info"}
KeySet == {KeyOrder[i] : i \in 1..Len(KeyOrder)}
StdNames == {standard_files_to_prepare[k] : k \in KeySet}
SrcNames(sfx) == {actual_src_name(k, sfx) : k \in KeySet}
AllNames == StdNames \cup UNION {SrcNames(s) : s \in Suffixes}

VARIABLES
    sensor_suffix,   \* the argument sensor_suffix
    scene_is_dir,    \* os.path.isdir(scene_path)
    scene0,          \* the files of the scene directory at the call
    fs,              \* the files of the scene directory: name -> content
    out0,            \* the output targets file at the call
    out,             \* the output targets file
    pc,              \* the position in the function
    k,               \* index in standard_files_to_prepare of the loop
    gt_file_successfully_prepared,
    scene_gt_data,   \* the loaded mapping, as its sequence of items
    idx,             \* index of the item the aggregation loop is at
    targets,
    diag             \* what was printed

vars == <<sensor_suffix, scene_is_dir, scene0, fs, out0, out, pc, k,
          gt_file_successfully_prepared, scene_gt_data, idx, targets, diag>>


(***************************************************************************)
(* The output targets file: absent, a JSON array of records, or the        *)
(* remains of a write that failed.                                         *)
(***************************************************************************)
OutAbsent == [type |-> "absent", items |-> <<>>]
OutPartial == [type |-> "partial", items |-> <<>>]
JsonDump(records) == [type |-> "json", items |-> records]
OldTargets ==
    JsonDump(<<[scene_id |-> scene_id_int, im_id |-> 9,
                obj_id |-> ObjInt(5), inst_count |-> 1]>>)

Say(m) == diag' = Append(diag, m)

Return == pc' = "returned"

(***************************************************************************)
(* Lines 16-18: the scene directory must exist.                            *)
(***************************************************************************)
CheckScenePath ==
    /\ pc = "start"
    /\ IF ~scene_is_dir
       THEN Say(Msg("error_scene_missing", "")) /\ Return
       ELSE pc' = "prepare" /\ UNCHANGED diag
    /\ UNCHANGED <<sensor_suffix, scene_is_dir, scene0, fs, out0, out, k,
                   gt_file_successfully_prepared, scene_gt_data, idx, targets>>

(***************************************************************************)
(* Lines 34-66: one iteration of the loop over standard_files_to_prepare.  *)
(***************************************************************************)
key == KeyOrder[k]
std_name == standard_files_to_prepare[key]
actual_src == actual_src_name(key, sensor_suffix)

\* The loop goes to its next item, or ends.
NextFile ==
    /\ k' = k + 1
    /\ pc' = IF k = Len(KeyOrder) THEN "verify" ELSE "prepare"

\* Lines 43-52: the source file does not exist.
\* Mutant: a missing ground-truth source is fatal whatever else is there.
GtIsMissingAlways == key = "gt"

GtIsMissing == key = "gt" /\ ~Exists(fs[std_name])

MissingWarnings ==
    IF sensor_suffix # ""
    THEN <<Msg("warn_src_missing", key)>>
    ELSE IF ~Exists(fs[std_name])
         THEN <<Msg("warn_std_missing", key)>>
         ELSE <<>>

SourceMissing ==
    /\ pc = "prepare"
    /\ ~Exists(fs[actual_src])
    /\ IF GtIsMissing
       THEN /\ diag' = diag \o MissingWarnings \o <<Msg("error_gt_required", key)>>
            /\ Return
            /\ UNCHANGED k
       ELSE /\ diag' = diag \o MissingWarnings
            /\ NextFile
    /\ UNCHANGED <<sensor_suffix, scene_is_dir, scene0, fs, out0, out,
                   gt_file_successfully_prepared, scene_gt_data, idx, targets>>

\* Lines 54-59: shutil.copy2 succeeds.
Copy2(files, src, dst) == [files EXCEPT ![dst] = files[src]]

CopyFile ==
    /\ pc = "prepare"
    /\ Exists(fs[actual_src])
    /\ actual_src # std_name
    /\ fs' = Copy2(fs, actual_src, std_name)
    /\ gt_file_successfully_prepared' =
           (gt_file_successfully_prepared \/ key = "gt")
    /\ NextFile
    /\ UNCHANGED <<sensor_suffix, scene_is_dir, scene0, out0, out,
                   scene_gt_data, idx, targets, diag>>

\* Lines 60-62: shutil.copy2 raises.  The destination is untouched (the
\* source or the destination could not be opened), holds a part of the data
\* (the copy broke off), or holds all of it (copying the metadata failed).
CopyFailures == {"untouched", "partial", "data_copied"}

FailedCopy2(files, src, dst, how) ==
    CASE how = "untouched" -> files
      [] how = "partial" -> [files EXCEPT ![dst] = Garbage]
      [] how = "data_copied" -> [files EXCEPT ![dst] = files[src]]

\* Mutants: no failed copy is fatal; every failed copy is fatal.
AfterCopyErrorGoesOn == NextFile
AfterCopyErrorReturns == Return /\ UNCHANGED k

AfterCopyError == IF key = "gt" THEN Return /\ UNCHANGED k ELSE NextFile

CopyFileFails ==
    /\ pc = "prepare"
    /\ Exists(fs[actual_src])
    /\ actual_src # std_name
    /\ \E how \in CopyFailures : fs' = FailedCopy2(fs, actual_src, std_name, how)
    /\ Say(Msg("error_copy", key))
    /\ AfterCopyError
    /\ UNCHANGED <<sensor_suffix, scene_is_dir, scene0, out0, out,
                   gt_file_successfully_prepared, scene_gt_data, idx, targets>>

\* Lines 63-66: the source is the standard file itself.
\* Mutant: the paths are not compared, and shutil.copy2 raises SameFileError.
AlreadyStandardCopies ==
    /\ pc = "prepare"
    /\ Exists(fs[actual_src])
    /\ actual_src = std_name
    /\ Say(Msg("error_copy", key))
    /\ AfterCopyError
    /\ UNCHANGED <<sensor_suffix, scene_is_dir, scene0, fs, out0, out,
                   gt_file_successfully_prepared, scene_gt_data, idx, targets>>

AlreadyStandard ==
    /\ pc = "prepare"
    /\ Exists(fs[actual_src])
    /\ actual_src = std_name
    /\ gt_file_successfully_prepared' =
           (gt_file_successfully_prepared \/ key = "gt")
    /\ NextFile
    /\ UNCHANGED <<sensor_suffix, scene_is_dir, scene0, fs, out0, out,
                   scene_gt_data, idx, targets, diag>>

(***************************************************************************)
(* Lines 68-73: scene_gt.json must be there.                               *)
(***************************************************************************)
final_gt_file_for_targets == standard_files_to_prepare["gt"]

VerifyGroundTruth ==
    /\ pc = "verify"
    /\ IF ~Exists(fs[final_gt_file_for_targets]) /\ ~gt_file_successfully_prepared
       THEN Say(Msg("error_gt_unavailable", "gt")) /\ Return
       ELSE pc' = "load" /\ UNCHANGED diag
    /\ UNCHANGED <<sensor_suffix, scene_is_dir, scene0, fs, out0, out, k,
                   gt_file_successfully_prepared, scene_gt_data, idx, targets>>

(***************************************************************************)
(* Lines 79-89: json.load of scene_gt.json, which must yield a dict.       *)
(***************************************************************************)
LoadRaises(f) == f.type \in {"absent", "garbage"}

LoadGroundTruth ==
    /\ pc = "load"
    /\ LET f == fs[final_gt_file_for_targets] IN
       IF LoadRaises(f)
       THEN Say(Msg("error_load", "gt")) /\ Return /\ UNCHANGED scene_gt_data
       ELSE IF f.type # "dict"
            THEN /\ Say(Msg("error_not_dict", "gt"))
                 /\ Return
                 /\ UNCHANGED scene_gt_data
            ELSE /\ scene_gt_data' = f.items
                 /\ pc' = "aggregate"
                 /\ UNCHANGED diag
    /\ UNCHANGED <<sensor_suffix, scene_is_dir, scene0, fs, out0, out, k,
                   gt_file_successfully_prepared, idx, targets>>

(***************************************************************************)
(* Lines 91-115: one iteration of the loop over scene_gt_data.items().     *)
(***************************************************************************)
\* The records lines 109-115 append for one item of the mapping.
ImageTargets(e) ==
    TargetsOfCounter(IntOf(e.key), CountObjects(e.anns, Len(e.anns)))

AggregateImage ==
    /\ pc = "aggregate"
    /\ idx <= Len(scene_gt_data)
    /\ LET e == scene_gt_data[idx] IN
       IF IntRaisesValueError(e.key)
       THEN /\ Say(Msg("warn_im_id_not_int", "image"))
            /\ idx' = idx + 1
            /\ UNCHANGED <<pc, targets>>
       ELSE IF ~e.isList
            THEN /\ Say(Msg("warn_not_list", "image"))
                 /\ idx' = idx + 1
                 /\ UNCHANGED <<pc, targets>>
            ELSE IF FirstUnhashable(e.anns) # 0
                 THEN \* TypeError at line 105: nobody catches it
                      /\ diag' = diag \o InvalidWarnings(e.key, e.anns,
                                           FirstUnhashable(e.anns) - 1)
                      /\ pc' = "crashed"
                      /\ UNCHANGED <<idx, targets>>
                 ELSE /\ diag' = diag \o InvalidWarnings(e.key, e.anns, Len(e.anns))
                      /\ targets' = targets \o ImageTargets(e)
                      /\ idx' = idx + 1
                      /\ UNCHANGED pc
    /\ UNCHANGED <<sensor_suffix, scene_is_dir, scene0, fs, out0, out, k,
                   gt_file_successfully_prepared, scene_gt_data>>

(***************************************************************************)
(* Lines 117-130: the warning for no targets, and the write.               *)
(***************************************************************************)
NoTargetsWarning == IF targets = <<>> THEN <<Msg("warn_no_targets", "")>> ELSE <<>>

WriteTargets ==
    /\ pc = "aggregate"
    /\ idx > Len(scene_gt_data)
    /\ out' = JsonDump(targets)
    /\ diag' = diag \o NoTargetsWarning
    /\ pc' = "saved"
    /\ UNCHANGED <<sensor_suffix, scene_is_dir, scene0, fs, out0, k,
                   gt_file_successfully_prepared, scene_gt_data, idx, targets>>

\* os.makedirs or open raises (the file is untouched), or the write breaks
\* off after open has truncated the file.
WriteFailures == {"untouched", "partial"}

WriteTargetsFails ==
    /\ pc = "aggregate"
    /\ idx > Len(scene_gt_data)
    /\ \E how \in WriteFailures :
           out' = IF how = "untouched" THEN out ELSE OutPartial
    /\ diag' = diag \o NoTargetsWarning \o <<Msg("error_save", "")>>
    /\ pc' = "save_failed"
    /\ UNCHANGED <<sensor_suffix, scene_is_dir, scene0, fs, out0, k,
                   gt_file_successfully_prepared, scene_gt_data, idx, targets>>

Next ==
    \/ CheckScenePath
    \/ SourceMissing
    \/ CopyFile
    \/ CopyFileFails
    \/ AlreadyStandard
    \/ VerifyGroundTruth
    \/ LoadGroundTruth
    \/ AggregateImage
    \/ WriteTargets
    \/ WriteTargetsFails


(***************************************************************************)
(* The state at the call.                                                  *)
(***************************************************************************)
\* The example ground truth: {"0": [5, 5, 7], "1": []}.
ExampleGT ==
    Mapping(<<ListEntry(<<"0">>, <<AnnObj(ObjInt(5)), AnnObj(ObjInt(5)),
                                   AnnObj(ObjInt(7))>>),
              ListEntry(<<"1">>, <<>>)>>)
\* {"0": [{"obj_id": [..]}]}
UnhashableGT == Mapping(<<ListEntry(<<"0">>, <<AnnObj(ObjList)>>)>>)

GtContents == {Absent, Garbage, NonMapping, Mapping(<<>>), ExampleGT, UnhashableGT}
OtherContents == {Absent, NonMapping, Mapping(<<>>)}

\* The names the run may load as ground truth, and the other names it may
\* touch, for a suffix.
GtNames(sfx) == {standard_files_to_prepare["gt"], actual_src_name("gt", sfx)}
OtherNames(sfx) == (StdNames \cup SrcNames(sfx)) \ GtNames(sfx)

InitRun ==
    /\ pc = "start"
    /\ k = 1
    /\ gt_file_successfully_prepared = FALSE
    /\ scene_gt_data = <<>>
    /\ idx = 1
    /\ targets = <<>>
    /\ diag = <<>>
    /\ out = out0
    /\ fs = scene0

Init ==
    /\ sensor_suffix \in Suffixes
    /\ scene_is_dir \in BOOLEAN
    /\ \E g \in [GtNames(sensor_suffix) -> GtContents],
          o \in [OtherNames(sensor_suffix) -> OtherContents] :
          scene0 = [n \in AllNames |->
                       IF n \in DOMAIN g THEN g[n]
                       ELSE IF n \in DOMAIN o THEN o[n] ELSE Absent]
    /\ scene_is_dir \/ \A n \in AllNames : ~Exists(scene0[n])
    /\ out0 \in {OutAbsent, OldTargets}
    /\ InitRun

Spec == Init /\ [][Next]_vars

(***************************************************************************)
(* The runs over every ground truth within the bounds: scene_gt.json is    *)
(* the only file of the scene and no suffix is given.                      *)
(***************************************************************************)
\* The ground truth with the keys ks, whose i-th value is a list of lens[i]
\* annotations (no list when lens[i] = -1), the lists taken in turn from flat.
RECURSIVE Total(_, _)
Total(lens, n) ==
    IF n = 0 THEN 0
    ELSE Total(lens, n - 1) + (IF lens[n] < 0 THEN 0 ELSE lens[n])

GroundTruthOf(ks, lens, flat) ==
    Mapping([i \in 1..Len(ks) |->
                IF lens[i] < 0 THEN NonListEntry(ks[i])
                ELSE ListEntry(ks[i],
                               [j \in 1..lens[i] |-> flat[Total(lens, i - 1) + j]])])

\* A JSON object read by json.load holds each key once.
DistinctKeys(ks) == \A i, j \in 1..Len(ks) : ks[i] = ks[j] => i = j

InitAgg ==
    /\ sensor_suffix = ""
    /\ scene_is_dir = TRUE
    /\ \E m \in 0..MaxEntries :
          \E ks \in [1..m -> Keys], lens \in [1..m -> -1..MaxAnns] :
             /\ DistinctKeys(ks)
             /\ Total(lens, m) <= MaxAnns
             /\ \E flat \in [1..Total(lens, m) -> Annotations] :
                \E gt \in {GroundTruthOf(ks, lens, flat), Garbage, NonMapping} :
                   scene0 = [n \in AllNames |->
                                IF n = standard_files_to_prepare["gt"] THEN gt
                                ELSE Absent]
    /\ out0 = OldTargets
    /\ InitRun

NextAgg ==
    \/ CheckScenePath
    \/ SourceMissing
    \/ AlreadyStandard
    \/ VerifyGroundTruth
    \/ LoadGroundTruth
    \/ AggregateImage
    \/ WriteTargets
    \/ WriteTargetsFails

SpecAgg == InitAgg /\ [][NextAgg]_vars


(***************************************************************************)
(* What the claims speak of.                                               *)
(***************************************************************************)
GtStd == standard_files_to_prepare["gt"]
GtSrc == actual_src_name("gt", sensor_suffix)

\* The positions of the dicts of a list that hold "obj_id", and those of them
\* that hold a given obj_id.
ValidPositions(anns) ==
    {i \in 1..Len(anns) : anns[i].isDict /\ anns[i].hasObjId}
PositionsOf(anns, o) == {i \in ValidPositions(anns) : anns[i].obj_id = o}
FirstPosition(anns, o) ==
    CHOOSE i \in PositionsOf(anns, o) : \A j \in PositionsOf(anns, o) : i <= j

RECURSIVE SumInstCount(_, _)
SumInstCount(recs, n) ==
    IF n = 0 THEN 0 ELSE SumInstCount(recs, n - 1) + recs[n].inst_count

\* A step that ends the loop's iteration for the item at idx, and the records
\* that step appended.
ItemDone == pc = "aggregate" /\ idx' = idx + 1
NewRecords == SubSeq(targets', Len(targets) + 1, Len(targets'))

Printed(text, about) == \E i \in 1..Len(diag) : diag[i] = Msg(text, about)
LastPrinted == diag[Len(diag)]

\* The errors of the steps before the write, by which the run returns.
FatalBeforeWrite ==
    \/ Printed("error_scene_missing", "")
    \/ Printed("error_gt_required", "gt")
    \/ Printed("error_copy", "gt")
    \/ Printed("error_gt_unavailable", "gt")
    \/ Printed("error_load", "gt")
    \/ Printed("error_not_dict", "gt")

\* The run returned out of the preparation of the files.
ReturnedInPreparation ==
    /\ pc = "returned"
    /\ LastPrinted.text \in {"error_scene_missing", "error_gt_required",
                             "error_copy", "error_gt_unavailable"}

(***************************************************************************)
(* C1: every record the aggregation appends for an item of the mapping     *)
(* has as inst_count the number of valid annotations (dicts holding        *)
(* "obj_id") of that item's list with the record's obj_id, which is at     *)
(* least 1; and the inst_count of the records of one image (an item with   *)
(* an integer key and a list, the others are skipped) add up to the number *)
(* of valid annotations of its list.                                       *)
(***************************************************************************)
IsImage(e) == ~IntRaisesValueError(e.key) /\ e.isList

C1_InstCount ==
    [][ItemDone =>
          LET e == scene_gt_data[idx]
              new == NewRecords
          IN /\ Len(targets') >= Len(targets)
             /\ \A i \in 1..Len(new) :
                   /\ new[i].inst_count = Cardinality(PositionsOf(e.anns, new[i].obj_id))
                   /\ new[i].inst_count >= 1
             /\ IsImage(e) =>
                   SumInstCount(new, Len(new)) = Cardinality(ValidPositions(e.anns))
      ]_vars

\* A record counting two annotations was written.
C1_Witness ==
    /\ pc = "saved"
    /\ \E i \in 1..Len(out.items) : out.items[i].inst_count = 2

(***************************************************************************)
(* C2: no two written records share im_id and obj_id.                      *)
(***************************************************************************)
C2_OneRecordPerPair ==
    pc = "saved" =>
        \A i, j \in 1..Len(out.items) :
            (/\ out.items[i].im_id = out.items[j].im_id
             /\ out.items[i].obj_id = out.items[j].obj_id) => i = j

(***************************************************************************)
(* C3: once the run has failed before the write step (scene directory      *)
(* missing, ground truth missing, copy of the ground truth failed, load    *)
(* failed, no mapping), the output file is what it was at the call.        *)
(***************************************************************************)
C3_AbortLeavesOutput ==
    (pc = "returned" \/ FatalBeforeWrite) => out = out0

\* sensor_suffix "cam1", scene_gt_cam1.json and scene_gt.json both absent,
\* and an output file of an earlier run.
C3_Witness ==
    /\ sensor_suffix = "cam1"
    /\ ~Exists(scene0[GtSrc]) /\ ~Exists(scene0[GtStd])
    /\ pc = "returned"
    /\ Printed("error_gt_required", "gt")
    /\ out0 = OldTargets

(***************************************************************************)
(* C4: with an empty sensor_suffix and the three standard files there,     *)
(* the preparation copies nothing, leaves every file as it was, prints no  *)
(* warning or error of its own, and the run goes on to load scene_gt.json. *)
(***************************************************************************)
StandardFilesThere ==
    /\ sensor_suffix = ""
    /\ scene_is_dir
    /\ \A n \in StdNames : Exists(scene0[n])

C4_StandardFilesKept ==
    StandardFilesThere =>
        /\ fs = scene0
        /\ ~ReturnedInPreparation
        /\ pc \in {"verify", "load"} =>
              diag = <<>> /\ gt_file_successfully_prepared

C4_Witness == StandardFilesThere /\ pc = "load"

(***************************************************************************)
(* C5: the preparation never changes a file it takes as the source of a    *)
(* kind, and writes the standard names only.                               *)
(***************************************************************************)
C5_SourcesUntouched ==
    /\ \A key_ \in KeySet :
          fs[actual_src_name(key_, sensor_suffix)]
              = scene0[actual_src_name(key_, sensor_suffix)]
    /\ \A n \in AllNames \ StdNames : fs[n] = scene0[n]

(***************************************************************************)
(* C6: malformed items and annotations are skipped: the run never ends in  *)
(* an uncaught exception, and what is written is what the mapping without  *)
(* them gives.                                                             *)
(***************************************************************************)
IsUsable(ann) == ann.isDict /\ ann.hasObjId /\ ann.obj_id.kind = "int"
RECURSIVE UsableOf(_, _)
UsableOf(anns, n) ==
    IF n = 0 THEN <<>>
    ELSE IF IsUsable(anns[n]) THEN Append(UsableOf(anns, n - 1), anns[n])
         ELSE UsableOf(anns, n - 1)

RECURSIVE TargetsOfClean(_, _)
TargetsOfClean(items, n) ==
    IF n = 0 THEN <<>>
    ELSE IF IsImage(items[n])
         THEN TargetsOfClean(items, n - 1)
              \o ImageTargets(ListEntry(items[n].key,
                                        UsableOf(items[n].anns, Len(items[n].anns))))
         ELSE TargetsOfClean(items, n - 1)

C6_MalformedSkipped ==
    /\ pc # "crashed"
    /\ pc = "saved" =>
          out.items = TargetsOfClean(scene_gt_data, Len(scene_gt_data))

(***************************************************************************)
(* C7: in the preparation only the ground truth is fatal.  The iteration   *)
(* for a kind returns exactly when the kind is gt and either its source    *)
(* and scene_gt.json are both missing or its copy failed; every other      *)
(* iteration goes on to the next kind, and after the last kind the run     *)
(* goes on to load scene_gt.json.                                          *)
(***************************************************************************)
CopyFailedNow == diag' = Append(diag, Msg("error_copy", key))

C7_OnlyGroundTruthFatal ==
    [][/\ pc = "prepare" =>
            /\ pc' = "returned" <=>
                  /\ key = "gt"
                  /\ \/ ~Exists(fs[actual_src]) /\ ~Exists(fs[std_name])
                     \/ CopyFailedNow
            /\ pc' # "returned" =>
                  /\ k' = k + 1
                  /\ pc' = IF k < Len(KeyOrder) THEN "prepare" ELSE "verify"
       /\ pc = "verify" => pc' = "load"
      ]_vars

\* The copies of the camera file and of the info file both failed, and the
\* targets were still written.
C7_Witness ==
    /\ Printed("error_copy", "camera")
    /\ Printed("error_copy", "gt_info")
    /\ pc = "saved"

(***************************************************************************)
(* C8: a run that prepared the files and loaded a mapping writes the       *)
(* aggregated records to the output file, also when there are none (unless *)
(* the write itself fails).                                                *)
(***************************************************************************)
C8_TargetsWritten ==
    (pc \in {"saved", "crashed"} /\ fs[GtStd].type = "dict") =>
        out = JsonDump(targets)

(***************************************************************************)
(* C9: with a sensor_suffix, scene_gt_<suffix>.json missing and            *)
(* scene_gt.json there, the preparation does not return: scene_gt.json     *)
(* stays as it was and the targets are aggregated from it.  The error for  *)
(* a missing ground truth is printed only if scene_gt.json was missing.    *)
(***************************************************************************)
StaleGroundTruth ==
    /\ sensor_suffix # ""
    /\ scene_is_dir
    /\ ~Exists(scene0[GtSrc])
    /\ Exists(scene0[GtStd])

C9_CanonicalSuffices ==
    /\ StaleGroundTruth =>
          /\ fs[GtStd] = scene0[GtStd]
          /\ ~ReturnedInPreparation
          /\ pc \in {"aggregate", "saved", "save_failed", "crashed"} =>
                scene_gt_data = scene0[GtStd].items
    /\ Printed("error_gt_required", "gt") => ~Exists(scene0[GtStd])

C9_Witness ==
    /\ StaleGroundTruth
    /\ Printed("warn_src_missing", "gt")
    /\ pc = "saved"
    /\ Len(out.items) = 2

====
